---- MODULE Spec2Model ----
(***************************************************************************)
(* Model of src/src/App.tsx (the App component, lines 220-400): a map on   *)
(* which a click opens a dialog bound to a draft spot (newSpot); Save      *)
(* appends the completed draft to the in-memory list spots, and an effect  *)
(* draws one coloured marker per spot on the map.  Lines 1-156 of the file *)
(* hold an earlier revision of the same component, with the same click,    *)
(* field, Cancel and Save handlers and the same getColorByTransparency;    *)
(* the map initialisation modelled here is that of lines 234-284.          *)
(*                                                                         *)
(* JavaScript values are encoded as follows.  null is the empty sequence   *)
(* Null and a non-null value v is <<v>>.  An object is a function from its *)
(* own keys to their values, so a key that was never written is a key      *)
(* that is not in the DOMAIN.  A numeral (the text of the number field,    *)
(* the result of toString()) is the sequence of its characters, so that    *)
(* Number() and toString() are computed; other strings are TLA+ strings.   *)
(***************************************************************************)
EXTENDS Integers, Sequences, FiniteSets, TLC

VARIABLES
    spots,              \* useState<SwimmingSpot[]>([])
    newSpot,            \* useState<Partial<SwimmingSpot> | null>(null)
    isDialogOpen,       \* useState(false)
    mapInitialized,     \* useState(false)
    mapError,           \* useState<string | null>(null)
    mapInitializedRef,  \* useRef(false)
    map,                \* useRef<mapboxgl.Map | null>(null): 0 is null, else an index into maps
    maps,               \* every mapboxgl.Map instance constructed so far
    markers,            \* every mapboxgl.Marker added to a map so far
    dialogMounted,      \* the Dialog's buttons are in the DOM (open, or still closing)
    effectActive,       \* the mount effect has run and its cleanup has not
    mounts,             \* number of runs of the mount effect
    now                 \* the latest reading of the millisecond clock (Date.now())

vars == <<spots, newSpot, isDialogOpen, mapInitialized, mapError,
          mapInitializedRef, map, maps, markers, dialogMounted,
          effectActive, mounts, now>>

uiVars == <<spots, newSpot, isDialogOpen, dialogMounted, markers, now>>
mapVars == <<mapInitialized, mapError, mapInitializedRef, map, maps,
             effectActive, mounts>>

----------------------------------------------------------------------------
(* Bounds of the exploration.                                              *)

MaxSpots == 2       \* Save is explored while fewer than this many spots exist
MaxTicks == 1       \* the clock advances at most this many milliseconds past ClockStart
MaxMounts == 2      \* the mount effect runs at most this many times
ClockStart == 9     \* first clock reading (so that ids of one and two digits occur)

(* What the user can do in the exploration.                                *)
Lngs == {10, 20}
Lats == {5}
TypedNames == {"", "Lake A"}
TypedTransparencies == {<<>>, <<"0">>, <<"-", "3">>, <<"7">>, <<"1", "2">>}
ChosenCleanliness == {"high"}
ErrorMessages == {"", "style failed"}

----------------------------------------------------------------------------
(* JavaScript helpers.                                                     *)

Null == <<>>
Some(v) == <<v>>

DigitChars == <<"0", "1", "2", "3", "4", "5", "6", "7", "8", "9">>

DigitValue(c) == (CHOOSE i \in 1..10 : DigitChars[i] = c) - 1

RECURSIVE ParseDigits(_)
ParseDigits(s) ==
    IF s = <<>> THEN 0
    ELSE 10 * ParseDigits(SubSeq(s, 1, Len(s) - 1)) + DigitValue(s[Len(s)])

\* Number(e.target.value) on the value of an <input type="number">: the
\* empty string converts to 0, a decimal numeral to its value.
Number(s) ==
    IF s = <<>> THEN 0
    ELSE IF s[1] = "-" THEN 0 - ParseDigits(Tail(s))
    ELSE ParseDigits(s)

RECURSIVE NatToString(_)
NatToString(n) ==
    IF n < 10 THEN <<DigitChars[n + 1]>>
    ELSE NatToString(n \div 10) \o <<DigitChars[(n % 10) + 1]>>

\* Date.now().toString() for the clock reading n
toString(n) == NatToString(n)

\* { ...a, ...b } on objects
Spread(a, b) ==
    [k \in DOMAIN a \cup DOMAIN b |-> IF k \in DOMAIN b THEN b[k] ELSE a[k]]

\* { <key>: v }: the spread of the draft left out
SpreadDraftReplacing(d, upd) == upd

\* { ...newSpot, <key>: v }: spreading null contributes no key
SpreadDraft(d, upd) == IF d = Null THEN upd ELSE Spread(d[1], upd)

\* JavaScript truthiness of d.key for a draft object d: a missing key is
\* undefined, which is falsy, and so are the string "" and the number 0.
TruthyString(d, key) == key \in DOMAIN d /\ d[key] # ""
TruthyNumber(d, key) == key \in DOMAIN d /\ d[key] # 0

----------------------------------------------------------------------------
(* The component.                                                          *)

\* The values the Select offers (lines 384-386)
Cleanliness == {"low", "medium", "high"}

Init ==
    /\ spots = <<>>
    /\ newSpot = Null
    /\ isDialogOpen = FALSE
    /\ mapInitialized = FALSE
    /\ mapError = Null
    /\ mapInitializedRef = FALSE
    /\ map = 0
    /\ maps = <<>>
    /\ markers = <<>>
    /\ dialogMounted = FALSE
    /\ effectActive = FALSE
    /\ mounts = 0
    /\ now = ClockStart

\* The bands with their lower limits included
getColorInclusive(transparency) ==
    IF transparency >= 10 THEN "#00ff00"
    ELSE IF transparency >= 5 THEN "#ffff00"
    ELSE "#ff0000"

\* getColorByTransparency (lines 335-339)
getColorByTransparency(transparency) ==
    IF transparency > 10 THEN "#00ff00"
    ELSE IF transparency > 5 THEN "#ffff00"
    ELSE "#ff0000"

\* The marker the spots effect builds for one spot (lines 295-310), added
\* to the map instance m.
Marker(spot, m) ==
    [map |-> m,
     backgroundColor |-> getColorByTransparency(spot.transparency),
     lngLat |-> <<spot.longitude, spot.latitude>>,
     popup |-> [name |-> spot.name,
                transparency |-> spot.transparency,
                cleanliness |-> spot.cleanliness]]

\* The markers cleared and drawn again on every change
SpotsEffectReplacing(list) ==
    IF map = 0 THEN markers
    ELSE [i \in 1..Len(list) |-> Marker(list[i], map)]

\* The spots effect (lines 286-313), run after a render in which spots
\* changed to list: the markers on the maps afterwards.
SpotsEffect(list) ==
    IF map = 0 THEN markers
    ELSE markers \o [i \in 1..Len(list) |-> Marker(list[i], map)]

----------------------------------------------------------------------------
(* initializeMap and the mount effect (lines 234-284).                     *)

\* new mapboxgl.Map(...) returned (lines 239-268): the instance is stored in
\* map.current and its load, error and click listeners are registered.
MapConstructed ==
    /\ maps' = Append(maps, [removed |-> FALSE, loaded |-> FALSE])
    /\ map' = Len(maps) + 1
    /\ UNCHANGED mapError

\* The constructor's exception caught and only logged
MapConstructorThrewSilently == UNCHANGED <<map, maps, mapError>>

\* new mapboxgl.Map(...) threw (lines 269-272): map.current keeps its value.
MapConstructorThrew ==
    /\ \E msg \in ErrorMessages \ {""} : mapError' = Some(msg)
    /\ UNCHANGED <<map, maps>>

\* initializeMap (lines 234-273).  mapContainer.current is attached before
\* any effect runs, so the guard of line 235 is decided by the ref alone.
initializeMap ==
    IF mapInitializedRef
    THEN UNCHANGED <<map, maps, mapError>>
    ELSE MapConstructed \/ MapConstructorThrew

\* The mount effect runs (lines 275-276).
MountEffect ==
    /\ ~effectActive
    /\ mounts < MaxMounts
    /\ initializeMap
    /\ effectActive' = TRUE
    /\ mounts' = mounts + 1
    /\ UNCHANGED <<mapInitialized, mapInitializedRef>>
    /\ UNCHANGED uiVars

\* The cleanup of the mount effect runs (lines 277-283).
EffectCleanup ==
    /\ effectActive
    /\ effectActive' = FALSE
    /\ IF map # 0 /\ mapInitializedRef
       THEN /\ maps' = [maps EXCEPT ![map].removed = TRUE]
            /\ mapInitializedRef' = FALSE
       ELSE UNCHANGED <<maps, mapInitializedRef>>
    /\ UNCHANGED <<map, mapInitialized, mapError, mounts>>
    /\ UNCHANGED uiVars

\* A map instance that was constructed and not removed still delivers events.
Live(i) == i \in 1..Len(maps) /\ ~maps[i].removed

\* 'load' listener (lines 248-252); a map fires load once.
MapLoad ==
    \E i \in 1..Len(maps) :
        /\ Live(i)
        /\ ~maps[i].loaded
        /\ maps' = [maps EXCEPT ![i].loaded = TRUE]
        /\ mapInitialized' = TRUE
        /\ mapInitializedRef' = TRUE
        /\ UNCHANGED <<map, mapError, effectActive, mounts>>
        /\ UNCHANGED uiVars

\* e.error.message || "An unknown error occurred" (line 256)
ErrorText(message) ==
    IF message # "" THEN message ELSE "An unknown error occurred"

\* 'error' listener (lines 254-257)
MapErrorEvent ==
    \E i \in 1..Len(maps), message \in ErrorMessages :
        /\ Live(i)
        /\ mapError' = Some(ErrorText(message))
        /\ UNCHANGED <<map, maps, mapInitialized, mapInitializedRef,
                       effectActive, mounts>>
        /\ UNCHANGED uiVars

----------------------------------------------------------------------------
(* The dialog (lines 259-266 and 315-397).                                 *)
(*                                                                         *)
(* The Dialog shows its content while isDialogOpen, and keeps it in the    *)
(* DOM while it fades out after isDialogOpen became false.  Its buttons    *)
(* and its onClose can therefore still be triggered once more on a closing *)
(* dialog (a double click on Save); typing into a field and choosing from  *)
(* the Select are taken to happen on an open dialog only.                  *)

\* The click merged into the draft before it
ClickedDraftMerged(d, lng, lat) ==
    Some(SpreadDraft(d, [longitude |-> lng, latitude |-> lat]))

\* The draft a click at e.lngLat = (lng, lat) sets, whatever the draft d
\* before it (lines 261-264)
ClickedDraft(d, lng, lat) == Some([longitude |-> lng, latitude |-> lat])

\* 'click' listener (lines 259-266), for a click at (lng, lat)
MapClickAt(lng, lat) ==
    /\ \E i \in 1..Len(maps) : Live(i)
    /\ newSpot' = ClickedDraft(newSpot, lng, lat)
    /\ isDialogOpen' = TRUE
    /\ dialogMounted' = TRUE
    /\ UNCHANGED <<spots, markers, now>>
    /\ UNCHANGED mapVars

MapClick == \E lng \in Lngs, lat \in Lats : MapClickAt(lng, lat)

\* Place Name onChange (lines 359-362)
NameChange ==
    \E value \in TypedNames :
        /\ isDialogOpen
        /\ newSpot' = Some(SpreadDraft(newSpot, [name |-> value]))
        /\ UNCHANGED <<spots, isDialogOpen, dialogMounted, markers, now>>
        /\ UNCHANGED mapVars

\* Water Transparency onChange (lines 370-373)
TransparencyChange ==
    \E value \in TypedTransparencies :
        /\ isDialogOpen
        /\ newSpot' = Some(SpreadDraft(newSpot, [transparency |-> Number(value)]))
        /\ UNCHANGED <<spots, isDialogOpen, dialogMounted, markers, now>>
        /\ UNCHANGED mapVars

\* Cleanliness onChange (lines 379-382)
CleanlinessChange ==
    \E value \in ChosenCleanliness :
        /\ isDialogOpen
        /\ newSpot' = Some(SpreadDraft(newSpot, [cleanliness |-> value]))
        /\ UNCHANGED <<spots, isDialogOpen, dialogMounted, markers, now>>
        /\ UNCHANGED mapVars

\* Dialog onClose (line 350): Escape or a click on the backdrop
DialogOnClose ==
    /\ dialogMounted
    /\ isDialogOpen' = FALSE
    /\ UNCHANGED <<spots, newSpot, dialogMounted, markers, now>>
    /\ UNCHANGED mapVars

\* The closing transition of the Dialog ends and its content leaves the DOM.
DialogExited ==
    /\ dialogMounted
    /\ ~isDialogOpen
    /\ dialogMounted' = FALSE
    /\ UNCHANGED <<spots, newSpot, isDialogOpen, markers, now>>
    /\ UNCHANGED mapVars

\* Only undefined fields counted as missing
CanSaveDefinedOnly(d) ==
    /\ d # Null
    /\ "name" \in DOMAIN d[1]
    /\ "transparency" \in DOMAIN d[1]
    /\ "cleanliness" \in DOMAIN d[1]

\* The condition of line 317
CanSave(d) ==
    /\ d # Null
    /\ TruthyString(d[1], "name")
    /\ TruthyNumber(d[1], "transparency")
    /\ TruthyString(d[1], "cleanliness")

\* The record with its coordinates exchanged
NewSpotRecordSwapped(d, t) ==
    [id |-> toString(t),
     name |-> d.name,
     transparency |-> d.transparency,
     cleanliness |-> d.cleanliness,
     longitude |-> d.latitude,
     latitude |-> d.longitude]

\* The record built at lines 318-325 from the draft object d at clock t
NewSpotRecord(d, t) ==
    [id |-> toString(t),
     name |-> d.name,
     transparency |-> d.transparency,
     cleanliness |-> d.cleanliness,
     longitude |-> d.longitude,
     latitude |-> d.latitude]

\* [spot, ...spots]
PrependSpot(list, spot) == <<spot>> \o list

\* [...spots, spot] (line 327)
AppendSpot(list, spot) == Append(list, spot)

\* The readings Date.now() can return: the clock never runs backwards, and
\* it may not have advanced since it was last read.
ClockReadings == now..(ClockStart + MaxTicks)

\* handleSaveSpot without its setNewSpot(null)
handleSaveSpotKeepingDraft ==
    /\ dialogMounted
    /\ IF CanSave(newSpot)
       THEN /\ Len(spots) < MaxSpots
            /\ \E t \in ClockReadings :
                   /\ spots' = AppendSpot(spots, NewSpotRecord(newSpot[1], t))
                   /\ now' = t
            /\ isDialogOpen' = FALSE
            /\ markers' = SpotsEffect(spots')
            /\ UNCHANGED newSpot
       ELSE UNCHANGED <<spots, isDialogOpen, newSpot, markers, now>>
    /\ UNCHANGED dialogMounted
    /\ UNCHANGED mapVars

\* handleSaveSpot (lines 315-333), followed by the spots effect that the
\* re-render with the new list runs (lines 286-313).
handleSaveSpot ==
    /\ dialogMounted
    /\ IF CanSave(newSpot)
       THEN /\ Len(spots) < MaxSpots
            /\ \E t \in ClockReadings :
                   /\ spots' = AppendSpot(spots, NewSpotRecord(newSpot[1], t))
                   /\ now' = t
            /\ isDialogOpen' = FALSE
            /\ newSpot' = Null
            /\ markers' = SpotsEffect(spots')
       ELSE UNCHANGED <<spots, isDialogOpen, newSpot, markers, now>>
    /\ UNCHANGED dialogMounted
    /\ UNCHANGED mapVars

\* The Cancel button wired to the Save handler
CancelWiredToSave == handleSaveSpot

\* Cancel onClick (lines 391-394)
Cancel ==
    /\ dialogMounted
    /\ isDialogOpen' = FALSE
    /\ UNCHANGED <<spots, newSpot, dialogMounted, markers, now>>
    /\ UNCHANGED mapVars

----------------------------------------------------------------------------
(* Specifications.                                                         *)

DialogStep ==
    \/ MapClick
    \/ NameChange
    \/ TransparencyChange
    \/ CleanlinessChange
    \/ Cancel
    \/ DialogOnClose
    \/ DialogExited
    \/ handleSaveSpot

\* A session in which React mounts the component once and has not unmounted
\* it (the production build), on a map that reports no error after its
\* construction.
Next ==
    \/ MountEffect
    \/ MapLoad
    \/ DialogStep

Spec == Init /\ [][Next]_vars

\* Sessions in which React also cleans the mount effect up and runs it again
\* (StrictMode's mount, unmount, mount in development, Fast Refresh), with the
\* dialog opened and closed but nothing typed.
NextLifecycle ==
    \/ MountEffect
    \/ EffectCleanup
    \/ MapLoad
    \/ MapErrorEvent
    \/ MapClick
    \/ Cancel
    \/ DialogOnClose
    \/ DialogExited

SpecLifecycle == Init /\ [][NextLifecycle]_vars

----------------------------------------------------------------------------
(* Properties.                                                             *)

\* A required field of the draft is absent: the draft is null, its name is
\* unset or empty, its transparency is unset or 0, or its cleanliness is unset.
RequiredFieldAbsent ==
    \/ newSpot = Null
    \/ "name" \notin DOMAIN newSpot[1]
    \/ newSpot[1].name = ""
    \/ "transparency" \notin DOMAIN newSpot[1]
    \/ newSpot[1].transparency = 0
    \/ "cleanliness" \notin DOMAIN newSpot[1]

DraftComplete == ~RequiredFieldAbsent

IsPrefix(s, t) == Len(s) <= Len(t) /\ SubSeq(t, 1, Len(s)) = s

\* C1: Save with a draft whose name, transparency and cleanliness are all
\* present appends exactly one record to the end of the spot list: the
\* length grows by 1, the new last record carries the draft's name,
\* transparency, cleanliness, longitude and latitude, and every earlier
\* record is unchanged.
C1_SaveAppendsOneRecord ==
    [][(handleSaveSpot /\ DraftComplete) =>
          /\ Len(spots') = Len(spots) + 1
          /\ SubSeq(spots', 1, Len(spots)) = spots
          /\ LET saved == spots'[Len(spots')]
                 draft == newSpot[1]
             IN  /\ saved.name = draft.name
                 /\ saved.transparency = draft.transparency
                 /\ saved.cleanliness = draft.cleanliness
                 /\ saved.longitude = draft.longitude
                 /\ saved.latitude = draft.latitude]_vars

\* Two records were saved, the second at the other click position.
C1_Witness ==
    /\ Len(spots) = 2
    /\ spots[1].longitude = 10 /\ spots[1].latitude = 5
    /\ spots[2].longitude = 20 /\ spots[2].latitude = 5
    /\ spots[2].transparency = 12
    /\ spots[2].name = "Lake A"

\* C2: Save is a silent no-op when any required field is absent: the spot
\* list, the draft and the dialog-open flag are unchanged and no error
\* state is set.
C2_SaveWithMissingFieldIsNoOp ==
    [][(handleSaveSpot /\ RequiredFieldAbsent) =>
          UNCHANGED <<spots, newSpot, isDialogOpen, mapError>>]_vars

\* Save can be pressed on a draft whose fields were all written, the
\* transparency as 0.
C2_Witness ==
    /\ dialogMounted
    /\ isDialogOpen
    /\ newSpot # Null
    /\ DOMAIN newSpot[1] =
           {"longitude", "latitude", "name", "transparency", "cleanliness"}
    /\ newSpot[1].name = "Lake A"
    /\ newSpot[1].transparency = 0

\* C3: Cancel (the Cancel button or dismissing the dialog) never changes the
\* spot list, whatever the draft contains; while no Save happens the spot
\* list stays empty.
C3_CancelKeepsSpots ==
    [][/\ (Cancel \/ DialogOnClose) => spots' = spots
       /\ (spots = <<>> /\ ~handleSaveSpot) => spots' = <<>>]_vars

\* The dialog was cancelled on a draft that Save would have accepted.
C3_Witness ==
    /\ ~isDialogOpen
    /\ DraftComplete
    /\ spots = <<>>

\* C4: a map click at (lng, lat) results in the dialog being open with a
\* draft that holds exactly that longitude and latitude and no name,
\* transparency or cleanliness, whatever draft existed before the click.
C4_ClickOpensFreshDraft ==
    [][\A lng \in Lngs, lat \in Lats :
          MapClickAt(lng, lat) =>
              /\ isDialogOpen'
              /\ newSpot' # Null
              /\ DOMAIN newSpot'[1] = {"longitude", "latitude"}
              /\ newSpot'[1].longitude = lng
              /\ newSpot'[1].latitude = lat]_vars

\* A click at (20, 5) opened a fresh draft after an earlier draft was saved.
C4_Witness ==
    /\ isDialogOpen
    /\ newSpot = Some([longitude |-> 20, latitude |-> 5])
    /\ Len(spots) = 1
    /\ spots[1].longitude = 10

Green == "#00ff00"
Yellow == "#ffff00"
Red == "#ff0000"

\* The colour of the band of transparency t is c.
InBand(t, c) ==
    /\ t > 10 => c = Green
    /\ (5 < t /\ t <= 10) => c = Yellow
    /\ t <= 5 => c = Red

\* C5: the marker colour is a function of transparency with three bands:
\* green for transparency > 10, yellow for 5 < transparency <= 10, red for
\* transparency <= 5 (12 green, 7 yellow, 3 red, 10 yellow, 5 red); every
\* marker drawn for a spot has the colour of that spot's band.
C5_MarkerColorBands ==
    /\ \A t \in -3..13 : InBand(t, getColorByTransparency(t))
    /\ getColorByTransparency(12) = Green
    /\ getColorByTransparency(7) = Yellow
    /\ getColorByTransparency(3) = Red
    /\ getColorByTransparency(10) = Yellow
    /\ getColorByTransparency(5) = Red
    /\ \A k \in 1..Len(markers) :
          \E i \in 1..Len(spots) :
              /\ markers[k].lngLat = <<spots[i].longitude, spots[i].latitude>>
              /\ markers[k].popup.transparency = spots[i].transparency
              /\ InBand(spots[i].transparency, markers[k].backgroundColor)

\* A yellow and a green marker were drawn.
C5_Witness ==
    /\ \E k \in 1..Len(markers) : markers[k].backgroundColor = Yellow
    /\ \E k \in 1..Len(markers) : markers[k].backgroundColor = Green

\* C6: the spot store is append-only: the spot list before a step is always
\* a prefix of the spot list after it.
C6_StoreIsAppendOnly == [][IsPrefix(spots, spots')]_vars

\* A second record was appended behind a first one.
C6_Witness ==
    /\ Len(spots) = 2
    /\ spots[1].transparency = 7
    /\ spots[2].transparency = -3

\* C7: Cancel discards the draft unconditionally: after Cancel (or
\* dismissing the dialog) no draft exists, so a draft exists only while the
\* dialog is open (dialog closed implies the draft is null).
C7_ClosedDialogHasNoDraft == ~isDialogOpen => newSpot = Null

\* C8: no two records in the store ever share an id, also when two saves
\* happen at the same clock reading.
C8_IdsAreUnique ==
    \A i, j \in 1..Len(spots) : i # j => spots[i].id # spots[j].id

\* C9: every record in the spot list has a non-empty name, a positive
\* transparency and a cleanliness that is one of low, medium, high, for any
\* values typed into the form before Save.
C9_RecordsSatisfyDataModel ==
    \A i \in 1..Len(spots) :
        /\ spots[i].name # ""
        /\ spots[i].transparency > 0
        /\ spots[i].cleanliness \in Cleanliness

\* The map instances that were created and not removed
LiveMaps == {i \in 1..Len(maps) : Live(i)}

\* C10: under any ordering of the mount effect, its cleanup, its re-run and
\* the map's load event there is never more than one live (created and not
\* removed) map instance.
C10_AtMostOneLiveMap == Cardinality(LiveMaps) <= 1

\* C11: the map instance is released on teardown: after the cleanup of the
\* mount effect has run, every map instance the component created has been
\* removed, also when teardown happens before the map's load event fired.
C11_CleanupRemovesEveryMap ==
    (mounts > 0 /\ ~effectActive) => \A i \in 1..Len(maps) : maps[i].removed

\* The map constructor threw in this step: initializeMap passed its guard
\* in a run of the mount effect and no instance was stored.
ConstructorThrewStep ==
    /\ effectActive' /\ ~effectActive
    /\ ~mapInitializedRef
    /\ maps' = maps

MarkerShows(k, i) ==
    /\ markers[k].lngLat = <<spots[i].longitude, spots[i].latitude>>
    /\ markers[k].popup.name = spots[i].name
    /\ markers[k].popup.transparency = spots[i].transparency
    /\ markers[k].popup.cleanliness = spots[i].cleanliness

\* C13: marker rendering is additive: every change of the spot list adds
\* one marker for every spot then in the list and removes none, so after n
\* saves the map holds n(n+1)/2 markers, the first-saved spot is drawn n
\* times, and the number of markers equals the number of spots only for
\* n <= 1.
C13_MarkersAccumulate ==
    LET n == Len(spots)
    IN  /\ Len(markers) = (n * (n + 1)) \div 2
        /\ \A j \in 1..n : \A i \in 1..j :
               MarkerShows(((j * (j - 1)) \div 2) + i, i)
        /\ Cardinality({j \in 1..n : MarkerShows(((j * (j - 1)) \div 2) + 1, 1)}) = n
        /\ (Len(markers) = n) <=> (n <= 1)

\* After two saves the map holds three markers, two of them for the first spot.
C13_Witness ==
    /\ Len(spots) = 2
    /\ Len(markers) = 3
    /\ spots[1].transparency # spots[2].transparency
    /\ markers[1] = markers[2]
    /\ markers[3] # markers[1]

\* The draft d holds both coordinates.
HasCoordinates(d) ==
    d # Null /\ {"longitude", "latitude"} \subseteq DOMAIN d[1]

C15_SecondSaveIsNoOp ==
    [][/\ Len(spots') > Len(spots) =>
              /\ ~isDialogOpen'
              /\ newSpot' = Null
       /\ (handleSaveSpot /\ newSpot = Null) =>
              UNCHANGED <<spots, newSpot, isDialogOpen, markers>>
       /\ (newSpot = Null /\ ~MapClick) => spots' = spots]_vars

\* A record was just saved and the closing dialog still shows its Save button.
C15_Witness ==
    /\ dialogMounted
    /\ ~isDialogOpen
    /\ newSpot = Null
    /\ Len(spots) = 1

\* A draft is cancelled once Cancel or onClose closed its dialog: the dialog
\* is closed and the draft is still there (a successful Save leaves none).
DraftCancelled == ~isDialogOpen /\ newSpot # Null

\* C16: field values of a cancelled draft never reach the store: no record
\* is appended from a cancelled draft, and the name, transparency and
\* cleanliness of a saved record were entered after the most recent map
\* click before that save, each click replacing the whole draft with one
\* that holds coordinates only.
C16_CancelledDraftNeverStored ==
    [][/\ Len(spots') > Len(spots) => ~DraftCancelled
       /\ MapClick => DOMAIN newSpot'[1] = {"longitude", "latitude"}
       /\ Len(spots') > Len(spots) =>
              /\ spots'[Len(spots')].name = newSpot[1].name
              /\ spots'[Len(spots')].transparency = newSpot[1].transparency
              /\ spots'[Len(spots')].cleanliness = newSpot[1].cleanliness]_vars

====
